---- MODULE Spec2Model ----
(***************************************************************************)
(* Model of hooks/permission-filter.py: the command safety classifier      *)
(* (extract_base_command, is_safe_command), the hook entry point main and  *)
(* the decision log written by log_decision.                               *)
(*                                                                         *)
(* A command string is a sequence of one-character strings.  A shell word  *)
(* is such a sequence too; Join turns it into a TLA+ string so that it can *)
(* be looked up in the allowlists, which are transcribed as written.       *)
(***************************************************************************)
EXTENDS Integers, Sequences, FiniteSets, TLC

VARIABLES
    command,     \* classifier run: the command string under classification
    cpc,         \* classifier run: "start" | "extracted" | "classified"
    extracted,   \* classifier run: value returned by extract_base_command
    safe,        \* classifier run: value returned by is_safe_command
    logfile,     \* the file auto-approved.json
    pc,          \* per hook process: position in main / log_decision
    input,       \* per hook process: what the process reads from stdin
    logs,        \* per hook process: the local list `logs` of log_decision
    log_entry,   \* per hook process: the entry built by log_decision
    log_failed,  \* per hook process: an exception was raised in log_decision
    log_before,  \* per hook process: the log's entries when log_decision was called
    stdout,      \* per hook process: what was written to standard output
    exit_status, \* per hook process: exit status, -1 while running
    clock,       \* number of log entries built so far (orders the timestamps)
    invocations  \* number of hook processes started so far

cvars == <<command, cpc, extracted, safe>>
hvars == <<logfile, pc, input, logs, log_entry, log_failed, log_before, stdout,
           exit_status, clock, invocations>>
vars == <<command, cpc, extracted, safe, logfile, pc, input, logs, log_entry,
          log_failed, log_before, stdout, exit_status, clock, invocations>>

(***************************************************************************)
(* Strings                                                                 *)
(***************************************************************************)
RECURSIVE Join(_)
Join(s) == IF s = <<>> THEN "" ELSE Head(s) \o Join(Tail(s))

RECURSIVE Concat(_)
Concat(ss) == IF ss = <<>> THEN <<>> ELSE Head(ss) \o Concat(Tail(ss))

\* s[i..] starts with the character sequence lit
StartsWithAt(s, i, lit) ==
    /\ i + Len(lit) - 1 <= Len(s)
    /\ \A k \in 1..Len(lit) : s[i + k - 1] = lit[k]

\* `sep in s`
Contains(s, sep) == \E i \in 1..Len(s) : StartsWithAt(s, i, sep)

\* index of the first occurrence of sep in s (sep occurs in s)
FindFirst(s, sep) ==
    CHOOSE i \in 1..Len(s) :
        /\ StartsWithAt(s, i, sep)
        /\ \A j \in 1..(i - 1) : ~StartsWithAt(s, j, sep)

\* s.split(sep)[0]
SplitFirst(s, sep) ==
    IF Contains(s, sep) THEN SubSeq(s, 1, FindFirst(s, sep) - 1) ELSE s

\* characters str.strip() and the regex class \s treat as whitespace
PY_WHITESPACE == {" ", "\t", "\n", "\r", "\f"}

\* the regex class \w
WORD_CHARS ==
    {"a", "b", "c", "d", "e", "f", "g", "h", "i", "j", "k", "l", "m",
     "n", "o", "p", "q", "r", "s", "t", "u", "v", "w", "x", "y", "z",
     "A", "B", "C", "D", "E", "F", "G", "H", "I", "J", "K", "L", "M",
     "N", "O", "P", "Q", "R", "S", "T", "U", "V", "W", "X", "Y", "Z",
     "0", "1", "2", "3", "4", "5", "6", "7", "8", "9", "_"}

\* first index >= i of s whose character is not in cls (Len(s) + 1 if none)
RECURSIVE SkipWhile(_, _, _)
SkipWhile(s, i, cls) ==
    IF i <= Len(s) /\ s[i] \in cls THEN SkipWhile(s, i + 1, cls) ELSE i

\* first index >= i of s whose character is in cls (Len(s) + 1 if none)
RECURSIVE SkipUntil(_, _, _)
SkipUntil(s, i, cls) ==
    IF i <= Len(s) /\ s[i] \notin cls THEN SkipUntil(s, i + 1, cls) ELSE i

\* str.strip()
Strip(s) ==
    LET first == SkipWhile(s, 1, PY_WHITESPACE)
        last  == CHOOSE j \in 0..Len(s) :
                     /\ j = 0 \/ s[j] \notin PY_WHITESPACE
                     /\ \A k \in (j + 1)..Len(s) : s[k] \in PY_WHITESPACE
    IN  IF first > Len(s) THEN <<>> ELSE SubSeq(s, first, last)

(***************************************************************************)
(* Allowlists                                                              *)
(***************************************************************************)
SAFE_COMMANDS ==
    {"ls", "cat", "head", "tail", "less", "more", "view",
     "cd", "pwd",
     "whoami", "date", "which", "type", "whereis",
     "uname", "hostname", "id", "groups",
     "ps", "top", "htop", "pgrep", "jobs",
     "df", "du", "free", "mount",
     "ifconfig", "ip", "netstat", "ss", "ping", "traceroute",
     "grep", "rg", "find", "locate", "wc", "sort", "uniq",
     "awk", "sed", "cut", "tr", "paste", "join",
     "echo", "env", "printenv", "set", "export",
     "file", "stat", "readlink", "basename", "dirname",
     "git", "hg", "svn",
     "npm", "pip", "apt", "yum", "brew",
     "curl", "wget", "man", "help", "history",
     "diff", "cmp", "md5sum", "sha256sum",
     "tree", "watch", "time", "tee"}

SAFE_SUBCOMMANDS ==
    [git  |-> {"status", "log", "diff", "show", "branch", "remote", "tag",
               "describe", "rev-parse", "ls-files", "ls-tree"},
     npm  |-> {"list", "ls", "view", "info", "search", "outdated", "audit"},
     pip  |-> {"list", "show", "search", "freeze"},
     apt  |-> {"list", "search", "show", "policy"},
     brew |-> {"list", "info", "search", "outdated"}]

\* the prefixes extract_base_command looks through
WRAPPERS == {"sudo", "time", "nohup", "nice"}

\* the separators of the truncation loop, in the order the loop visits them
SEPARATORS == << <<"|">>, <<";">>, <<"&", "&">>, <<"|", "|">> >>

(***************************************************************************)
(* extract_base_command                                                    *)
(***************************************************************************)
\* end of the longest run of groups `\w+=\S+\s+` that starts at index i
RECURSIVE EnvAssignments(_, _)
EnvAssignments(s, i) ==
    LET w == SkipWhile(s, i, WORD_CHARS)
        v == SkipUntil(s, w + 1, PY_WHITESPACE)
        e == SkipWhile(s, v, PY_WHITESPACE)
    IN  IF w > i /\ w <= Len(s) /\ s[w] = "=" /\ v > w + 1 /\ e > v
        THEN EnvAssignments(s, e)
        ELSE i

\* re.sub(r'^\s*(?:\w+=\S+\s+)*', '', command)
strip_env(s) ==
    SubSeq(s, EnvAssignments(s, SkipWhile(s, 1, PY_WHITESPACE)), Len(s))

\* one pass of the separator loop: `if separator in command: command = ...`
split_on(cmd, separator) ==
    IF Contains(cmd, separator) THEN Strip(SplitFirst(cmd, separator)) ELSE cmd

\* the separator loop from its k-th separator on
RECURSIVE truncate_from(_, _)
truncate_from(cmd, k) ==
    IF k > Len(SEPARATORS) THEN cmd
    ELSE truncate_from(split_on(cmd, SEPARATORS[k]), k + 1)

first_segment(cmd) == truncate_from(strip_env(cmd), 1)

\* shlex character classes (posix mode, whitespace_split, no commenters)
SHLEX_WHITESPACE == {" ", "\t", "\r", "\n"}
SHLEX_QUOTES == {"'", "\""}
SHLEX_ESCAPE == {"\\"}
SHLEX_ESCAPEDQUOTES == {"\""}

\* shlex.shlex.read_token, called until the input is exhausted.  state is
\* " " between words, "a" inside a word, a quote character inside a quoted
\* string and the escape character right after it; out collects the words.
RECURSIVE shlex_scan(_, _, _, _, _, _, _)
shlex_scan(s, i, state, escapedstate, token, quoted, out) ==
    IF i > Len(s)
    THEN IF state \in SHLEX_QUOTES \/ state \in SHLEX_ESCAPE
         THEN [ok |-> FALSE, parts |-> <<>>]
         ELSE [ok |-> TRUE,
               parts |-> IF token # <<>> \/ quoted THEN Append(out, token) ELSE out]
    ELSE
    LET c == s[i] IN
    CASE state = " " ->
            IF c \in SHLEX_WHITESPACE
            THEN IF token # <<>> \/ quoted
                 THEN shlex_scan(s, i + 1, " ", escapedstate, <<>>, FALSE, Append(out, token))
                 ELSE shlex_scan(s, i + 1, " ", escapedstate, token, quoted, out)
            ELSE IF c \in SHLEX_ESCAPE
            THEN shlex_scan(s, i + 1, c, "a", token, quoted, out)
            ELSE IF c \in SHLEX_QUOTES
            THEN shlex_scan(s, i + 1, c, escapedstate, token, quoted, out)
            ELSE shlex_scan(s, i + 1, "a", escapedstate, <<c>>, quoted, out)
      [] state \in SHLEX_QUOTES ->
            IF c = state
            THEN shlex_scan(s, i + 1, "a", escapedstate, token, TRUE, out)
            ELSE IF c \in SHLEX_ESCAPE /\ state \in SHLEX_ESCAPEDQUOTES
            THEN shlex_scan(s, i + 1, c, state, token, TRUE, out)
            ELSE shlex_scan(s, i + 1, state, escapedstate, Append(token, c), TRUE, out)
      [] state \in SHLEX_ESCAPE ->
            shlex_scan(s, i + 1, escapedstate, escapedstate,
                       IF escapedstate \in SHLEX_QUOTES /\ c # state /\ c # escapedstate
                       THEN token \o <<state, c>>
                       ELSE Append(token, c),
                       quoted, out)
      [] OTHER ->
            IF c \in SHLEX_WHITESPACE
            THEN IF token # <<>> \/ quoted
                 THEN shlex_scan(s, i + 1, " ", escapedstate, <<>>, FALSE, Append(out, token))
                 ELSE shlex_scan(s, i + 1, " ", escapedstate, token, quoted, out)
            ELSE IF c \in SHLEX_QUOTES
            THEN shlex_scan(s, i + 1, c, escapedstate, token, quoted, out)
            ELSE IF c \in SHLEX_ESCAPE
            THEN shlex_scan(s, i + 1, c, "a", token, quoted, out)
            ELSE shlex_scan(s, i + 1, "a", escapedstate, Append(token, c), quoted, out)

\* shlex.split(s): ok is FALSE when it raises ValueError
shlex_split(s) == shlex_scan(s, 1, " ", " ", <<>>, FALSE, <<>>)

\* as parse_failed, but falling back to the first whitespace-delimited word
parse_failed_first_word(cmd) ==
    LET seg == first_segment(cmd)
        from == SkipWhile(seg, 1, SHLEX_WHITESPACE)
        to == SkipUntil(seg, from, SHLEX_WHITESPACE)
    IN  [base_cmd |-> SubSeq(seg, from, to - 1), args |-> <<>>]

\* the `except:` branch of extract_base_command
parse_failed(cmd) == [base_cmd |-> <<>>, args |-> <<>>]

\* `if base_cmd in [...]: if args: ...`
strip_wrapper(parts) ==
    LET base_cmd == parts[1]
        args == Tail(parts)
    IN  IF Join(base_cmd) \in WRAPPERS /\ args # <<>>
        THEN [base_cmd |-> args[1], args |-> Tail(args)]
        ELSE [base_cmd |-> base_cmd, args |-> args]

extract_base_command(cmd) ==
    LET split == shlex_split(first_segment(cmd)) IN
    IF ~split.ok THEN parse_failed(cmd)
    ELSE IF split.parts = <<>> THEN [base_cmd |-> <<>>, args |-> <<>>]
    ELSE strip_wrapper(split.parts)

(***************************************************************************)
(* is_safe_command                                                         *)
(***************************************************************************)
\* base_cmd.split('/')[-1]
last_path_component(w) ==
    LET slashes == {i \in 1..Len(w) : w[i] = "/"}
        last == IF slashes = {} THEN 0
                ELSE CHOOSE i \in slashes : \A j \in slashes : j <= i
    IN  SubSeq(w, last + 1, Len(w))

\* each pattern is `lead \s* lit`
UNSAFE_PATTERNS ==
    << << <<">">>, <<"/", "e", "t", "c", "/">> >>,
       << <<">">>, <<"/", "u", "s", "r", "/">> >>,
       << <<">">>, <<"/", "b", "i", "n", "/">> >>,
       << <<">">>, <<"/", "s", "b", "i", "n", "/">> >>,
       << <<">", ">">>, <<".", "b", "a", "s", "h", "r", "c">> >>,
       << <<">", ">">>, <<".", "z", "s", "h", "r", "c">> >>,
       << <<">", ">">>, <<".", "p", "r", "o", "f", "i", "l", "e">> >> >>

\* re.search(pattern, s)
re_search(pattern, s) ==
    \E i \in 1..Len(s) :
        /\ StartsWithAt(s, i, pattern[1])
        /\ StartsWithAt(s, SkipWhile(s, i + Len(pattern[1]), PY_WHITESPACE), pattern[2])

matches_unsafe_pattern(cmd) ==
    \E k \in 1..Len(UNSAFE_PATTERNS) : re_search(UNSAFE_PATTERNS[k], cmd)

\* as subcommand_branch, but the branch is never taken
subcommand_branch_never(cmd_name, args) == FALSE

\* the subcommand branch: `if cmd_name in SAFE_SUBCOMMANDS and args:`
subcommand_branch(cmd_name, args) ==
    cmd_name \in DOMAIN SAFE_SUBCOMMANDS /\ args # <<>>

\* as is_safe_command, but without the look-up in SAFE_COMMANDS
is_safe_command_no_allowlist(cmd) ==
    LET e == extract_base_command(cmd)
        cmd_name == Join(last_path_component(e.base_cmd))
    IN  IF e.base_cmd = <<>> THEN FALSE
        ELSE IF subcommand_branch(cmd_name, e.args)
             THEN Join(e.args[1]) \in SAFE_SUBCOMMANDS[cmd_name]
        ELSE IF matches_unsafe_pattern(cmd) THEN FALSE
        ELSE TRUE

is_safe_command(cmd) ==
    LET e == extract_base_command(cmd)
        cmd_name == Join(last_path_component(e.base_cmd))
    IN  IF e.base_cmd = <<>> THEN FALSE
        ELSE IF cmd_name \notin SAFE_COMMANDS THEN FALSE
        ELSE IF subcommand_branch(cmd_name, e.args)
             THEN Join(e.args[1]) \in SAFE_SUBCOMMANDS[cmd_name]
        ELSE IF matches_unsafe_pattern(cmd) THEN FALSE
        ELSE TRUE

(***************************************************************************)
(* Classifier runs: one command string, extract_base_command, then         *)
(* is_safe_command.  The command is any concatenation of at most MaxPieces *)
(* of the pieces below.                                                    *)
(***************************************************************************)
MaxPieces == 3

PIECES ==
    {<<"l", "s">>,
     <<"r", "m">>,
     <<"g", "i", "t">>,
     <<"s", "u", "d", "o", " ">>,
     <<"t", "i", "m", "e", " ">>,
     <<" ", "s", "t", "a", "t", "u", "s">>,
     <<" ", "p", "u", "s", "h">>,
     <<" ">>,
     <<" ", ">", " ", "/", "e", "t", "c", "/">>,
     <<"/", "e", "t", "c", "/">>,
     <<" ", ">", ">", ".", "b", "a", "s", "h", "r", "c">>,
     <<"|">>,
     <<";">>,
     <<"&", "&">>,
     <<"'">>,
     <<"\"">>,
     <<"\\">>,
     <<"X", "=", "1">>}

COMMANDS ==
    {Concat(ps) : ps \in UNION {[1..n -> PIECES] : n \in 0..MaxPieces}}

ProcIds == {1, 2}

\* a JSON value as main uses it: a string, or anything else (number, list,
\* null, ...) of which only the truth value matters
JsonStr(s) == [type |-> "str", val |-> s, truthy |-> s # <<>>]
JsonOther(truthy) == [type |-> "other", val |-> <<>>, truthy |-> truthy]

\* what a hook process finds on standard input.  json is "invalid" (not JSON),
\* "nonobject" (JSON, but no object) or "object"; a key that is absent reads
\* as its default, so tool_name "" and command "" stand for absent keys too.
StdinObject(tool_name, tool_input_type, cmd) ==
    [json |-> "object", tool_name |-> tool_name,
     tool_input |-> [type |-> tool_input_type, command |-> cmd]]
StdinOther(kind) ==
    [json |-> kind, tool_name |-> JsonStr(<<>>),
     tool_input |-> [type |-> "obj", command |-> JsonStr(<<>>)]]

NoInput == StdinOther("none")
NoEntry == [timestamp |-> 0, tool_name |-> "", decision |-> "", reason |-> <<>>]

\* the hook processes, none started, and no log file
HooksIdle ==
    /\ logfile = [kind |-> "absent", entries |-> <<>>]
    /\ pc = [p \in ProcIds |-> "idle"]
    /\ input = [p \in ProcIds |-> NoInput]
    /\ logs = [p \in ProcIds |-> <<>>]
    /\ log_entry = [p \in ProcIds |-> NoEntry]
    /\ log_failed = [p \in ProcIds |-> FALSE]
    /\ log_before = [p \in ProcIds |-> <<>>]
    /\ stdout = [p \in ProcIds |-> <<>>]
    /\ exit_status = [p \in ProcIds |-> -1]
    /\ clock = 0
    /\ invocations = 0

InitClassify ==
    /\ command \in COMMANDS
    /\ cpc = "start"
    /\ extracted = [base_cmd |-> <<>>, args |-> <<>>]
    /\ safe = FALSE
    /\ HooksIdle

ExtractBaseCommand ==
    /\ cpc = "start"
    /\ extracted' = extract_base_command(command)
    /\ cpc' = "extracted"
    /\ UNCHANGED <<command, safe>>
    /\ UNCHANGED hvars

IsSafeCommand ==
    /\ cpc = "extracted"
    /\ safe' = is_safe_command(command)
    /\ cpc' = "classified"
    /\ UNCHANGED <<command, extracted>>
    /\ UNCHANGED hvars

NextClassify == ExtractBaseCommand \/ IsSafeCommand

SpecClassify == InitClassify /\ [][NextClassify]_vars

(***************************************************************************)
(* main                                                                    *)
(***************************************************************************)
MaxInvocations == 2

TRUSTED_MCP_PREFIXES ==
    << <<"m", "c", "p", "_", "_", "z", "e", "n", "_", "_">>,
       <<"m", "c", "p", "_", "_", "p", "l", "a", "y", "w", "r", "i", "g", "h", "t", "_", "_">>,
       <<"m", "c", "p", "_", "_", "r", "e", "f", "_", "_">> >>

BASH == <<"B", "a", "s", "h">>

\* tool names and commands the hook processes are started with
TOOL_NAMES ==
    {BASH,
     <<"R", "e", "a", "d">>,
     <<>>,
     <<"m", "c", "p", "_", "_", "z", "e", "n", "_", "_", "c", "h", "a", "t">>,
     <<"m", "c", "p", "_", "_", "p", "l", "a", "y", "w", "r", "i", "g", "h", "t", "_", "_",
       "c", "l", "i", "c", "k">>,
     <<"m", "c", "p", "_", "_", "r", "e", "f", "_", "_", "s", "e", "a", "r", "c", "h">>}

HOOK_COMMANDS ==
    {<<>>,
     <<"l", "s">>,
     <<"r", "m", " ", "-", "r", "f", " ", "/">>,
     <<"g", "i", "t", " ", "s", "t", "a", "t", "u", "s">>,
     <<"g", "i", "t", " ", "p", "u", "s", "h">>,
     <<"s", "u", "d", "o", " ", "l", "s">>,
     <<"l", "s", " ", "'", "a">>,
     <<"l", "s", " ", ">", " ", "/", "e", "t", "c", "/", "x">>}

INPUTS ==
    {StdinOther("invalid"), StdinOther("nonobject")}
    \cup {StdinObject(JsonOther(t), "obj", JsonStr(<<>>)) : t \in BOOLEAN}
    \cup {StdinObject(JsonStr(n), "obj", JsonStr(<<>>)) : n \in TOOL_NAMES \ {BASH}}
    \cup {StdinObject(JsonStr(BASH), "other", JsonStr(<<>>))}
    \cup {StdinObject(JsonStr(BASH), "obj", JsonStr(c)) : c \in HOOK_COMMANDS}
    \cup {StdinObject(JsonStr(BASH), "obj", JsonOther(t)) : t \in BOOLEAN}

\* the first trusted prefix tool_name starts with, 0 if there is none
trusted_prefix(tool_name) ==
    LET hits == {k \in 1..Len(TRUSTED_MCP_PREFIXES) :
                     StartsWithAt(tool_name, 1, TRUSTED_MCP_PREFIXES[k])}
    IN  IF hits = {} THEN 0 ELSE CHOOSE k \in hits : \A j \in hits : k <= j

\* as is_safe_value, but approving every non-empty command
is_safe_value_truthy(v) == v.truthy

\* is_safe_command on the value of the "command" key: a value that is no
\* string makes re.sub raise inside extract_base_command's try block
is_safe_value(v) == IF v.type = "str" THEN is_safe_command(v.val) ELSE FALSE

\* the arguments of the call of log_decision main makes for this input
log_arguments(inp) ==
    LET k == trusted_prefix(inp.tool_name.val) IN
    IF k # 0
    THEN [tool_name |-> Join(inp.tool_name.val),
          reason |-> <<"Trusted MCP tool: ", Join(TRUSTED_MCP_PREFIXES[k])>>]
    ELSE [tool_name |-> "Bash",
          reason |-> <<"Safe command: ",
                       Join(extract_base_command(inp.tool_input.command.val).base_cmd)>>]

\* the object main writes to standard output for this input
approve_output(inp) ==
    LET k == trusted_prefix(inp.tool_name.val) IN
    IF k # 0
    THEN [decision |-> "approve",
          reason |-> <<"Auto-approved: ", Join(TRUSTED_MCP_PREFIXES[k]), " (trusted MCP)">>]
    ELSE [decision |-> "approve",
          reason |-> <<"Auto-approved: ",
                       Join(extract_base_command(inp.tool_input.command.val).base_cmd),
                       " (safe read-only)">>]

\* sys.exit(status), or the interpreter ending on an uncaught exception (1)
Exit(p, status) ==
    /\ pc' = [pc EXCEPT ![p] = "exited"]
    /\ exit_status' = [exit_status EXCEPT ![p] = status]

Goto(p, label) ==
    /\ pc' = [pc EXCEPT ![p] = label]
    /\ UNCHANGED exit_status

\* the host starts the hook for a tool call
StartHook(p) ==
    /\ pc[p] \in {"idle", "exited"}
    /\ invocations < MaxInvocations
    /\ invocations' = invocations + 1
    /\ \E inp \in INPUTS : input' = [input EXCEPT ![p] = inp]
    /\ pc' = [pc EXCEPT ![p] = "read_stdin"]
    /\ logs' = [logs EXCEPT ![p] = <<>>]
    /\ log_entry' = [log_entry EXCEPT ![p] = NoEntry]
    /\ log_failed' = [log_failed EXCEPT ![p] = FALSE]
    /\ log_before' = [log_before EXCEPT ![p] = <<>>]
    /\ stdout' = [stdout EXCEPT ![p] = <<>>]
    /\ exit_status' = [exit_status EXCEPT ![p] = -1]
    /\ UNCHANGED <<logfile, clock>>
    /\ UNCHANGED cvars

\* json.load(sys.stdin) and input_data.get("tool_name", "")
ReadStdin(p) ==
    /\ pc[p] = "read_stdin"
    /\ \/ /\ input[p].json = "invalid"
          /\ Exit(p, 1)
       \/ /\ input[p].json = "nonobject"
          /\ Exit(p, 1)
       \/ /\ input[p].json = "object"
          /\ Goto(p, "check_mcp")
    /\ UNCHANGED <<logfile, input, logs, log_entry, log_failed, log_before, stdout,
                   clock, invocations>>
    /\ UNCHANGED cvars

\* the loop over TRUSTED_MCP_PREFIXES
CheckMcp(p) ==
    /\ pc[p] = "check_mcp"
    /\ \/ /\ input[p].tool_name.type # "str"
          /\ Exit(p, 1)
       \/ /\ input[p].tool_name.type = "str"
          /\ trusted_prefix(input[p].tool_name.val) # 0
          /\ Goto(p, "log_decision")
       \/ /\ input[p].tool_name.type = "str"
          /\ trusted_prefix(input[p].tool_name.val) = 0
          /\ Goto(p, "check_bash")
    /\ UNCHANGED <<logfile, input, logs, log_entry, log_failed, log_before, stdout,
                   clock, invocations>>
    /\ UNCHANGED cvars

\* `if tool_name == "Bash":` and the final sys.exit(0)
CheckBash(p) ==
    /\ pc[p] = "check_bash"
    /\ \/ /\ input[p].tool_name.val # BASH
          /\ Exit(p, 0)
       \/ /\ input[p].tool_name.val = BASH
          /\ input[p].tool_input.type # "obj"
          /\ Exit(p, 1)
       \/ /\ input[p].tool_name.val = BASH
          /\ input[p].tool_input.type = "obj"
          /\ ~input[p].tool_input.command.truthy
          /\ Exit(p, 0)
       \/ /\ input[p].tool_name.val = BASH
          /\ input[p].tool_input.type = "obj"
          /\ input[p].tool_input.command.truthy
          /\ is_safe_value(input[p].tool_input.command)
          /\ Goto(p, "log_decision")
       \/ /\ input[p].tool_name.val = BASH
          /\ input[p].tool_input.type = "obj"
          /\ input[p].tool_input.command.truthy
          /\ ~is_safe_value(input[p].tool_input.command)
          /\ Exit(p, 0)
    /\ UNCHANGED <<logfile, input, logs, log_entry, log_failed, log_before, stdout,
                   clock, invocations>>
    /\ UNCHANGED cvars

\* json.dump({"decision": "approve", ...}, sys.stdout); sys.exit(0)
Emit(p) ==
    /\ pc[p] = "emit"
    /\ stdout' = [stdout EXCEPT ![p] = <<approve_output(input[p])>>]
    /\ Exit(p, 0)
    /\ UNCHANGED <<logfile, input, logs, log_entry, log_failed, log_before, clock,
                   invocations>>
    /\ UNCHANGED cvars

(***************************************************************************)
(* log_decision                                                            *)
(***************************************************************************)
MAX_LOG_ENTRIES == 1000

\* as log_exception_swallowed, but the exception leaves log_decision
log_exception_propagates == FALSE

\* `except: pass`: an exception raised inside log_decision stays inside it
log_exception_swallowed == TRUE

\* an exception is raised at the current step of log_decision
LogRaise(p) ==
    /\ log_failed' = [log_failed EXCEPT ![p] = TRUE]
    /\ IF log_exception_swallowed THEN Goto(p, "emit") ELSE Exit(p, 1)

\* as trim, but keeping the first 1000 entries
trim_keep_first(l) ==
    IF Len(l) > MAX_LOG_ENTRIES THEN SubSeq(l, 1, MAX_LOG_ENTRIES) ELSE l

\* `if len(logs) > 1000: logs = logs[-1000:]`
trim(l) ==
    IF Len(l) > MAX_LOG_ENTRIES
    THEN SubSeq(l, Len(l) - MAX_LOG_ENTRIES + 1, Len(l))
    ELSE l

\* logs_dir.mkdir(exist_ok=True) and the construction of log_entry
LogMkdir(p) ==
    /\ pc[p] = "log_decision"
    /\ log_before' = [log_before EXCEPT ![p] = logfile.entries]
    /\ \/ /\ log_entry' = [log_entry EXCEPT ![p] =
                 [timestamp |-> clock + 1,
                  tool_name |-> log_arguments(input[p]).tool_name,
                  decision |-> "auto-approved",
                  reason |-> log_arguments(input[p]).reason]]
          /\ clock' = clock + 1
          /\ Goto(p, "log_read")
          /\ UNCHANGED log_failed
       \/ /\ LogRaise(p)
          /\ UNCHANGED <<log_entry, clock>>
    /\ UNCHANGED <<logfile, input, logs, stdout, invocations>>
    /\ UNCHANGED cvars

\* `if log_file.exists(): logs = json.load(f) else: logs = []`
LogRead(p) ==
    /\ pc[p] = "log_read"
    /\ \/ /\ logfile.kind = "absent"
          /\ logs' = [logs EXCEPT ![p] = <<>>]
          /\ Goto(p, "log_append")
          /\ UNCHANGED log_failed
       \/ /\ logfile.kind = "list"
          /\ logs' = [logs EXCEPT ![p] = logfile.entries]
          /\ Goto(p, "log_append")
          /\ UNCHANGED log_failed
       \/ /\ logfile.kind # "absent"
          /\ LogRaise(p)
          /\ UNCHANGED logs
    /\ UNCHANGED <<logfile, input, log_entry, log_before, stdout, clock, invocations>>
    /\ UNCHANGED cvars

\* logs.append(log_entry) and the cut to the last 1000 entries
LogAppend(p) ==
    /\ pc[p] = "log_append"
    /\ logs' = [logs EXCEPT ![p] = trim(Append(logs[p], log_entry[p]))]
    /\ Goto(p, "log_open")
    /\ UNCHANGED <<logfile, input, log_entry, log_failed, log_before, stdout, clock,
                   invocations>>
    /\ UNCHANGED cvars

\* open(log_file, "w"): the file is emptied, and an empty file is no JSON
LogOpen(p) ==
    /\ pc[p] = "log_open"
    /\ \/ /\ logfile' = [kind |-> "corrupt", entries |-> <<>>]
          /\ Goto(p, "log_dump")
          /\ UNCHANGED log_failed
       \/ /\ LogRaise(p)
          /\ UNCHANGED logfile
    /\ UNCHANGED <<input, logs, log_entry, log_before, stdout, clock, invocations>>
    /\ UNCHANGED cvars

\* json.dump(logs, f, indent=2) and the close of the file
LogDump(p) ==
    /\ pc[p] = "log_dump"
    /\ \/ /\ logfile' = [kind |-> "list", entries |-> logs[p]]
          /\ Goto(p, "emit")
          /\ UNCHANGED log_failed
       \/ /\ LogRaise(p)
          /\ UNCHANGED logfile
    /\ UNCHANGED <<input, logs, log_entry, log_before, stdout, clock, invocations>>
    /\ UNCHANGED cvars

(***************************************************************************)
(* Hook invocations, one after another                                     *)
(***************************************************************************)
\* an entry written by an earlier invocation
OldEntry(k) ==
    [timestamp |-> k, tool_name |-> "Bash", decision |-> "auto-approved",
     reason |-> <<"Safe command: ", "ls">>]

\* the log after n earlier approvals
OldLog(n) == [kind |-> "list", entries |-> [k \in 1..n |-> OldEntry(k)]]

INIT_LOG_LENGTHS == {1, MAX_LOG_ENTRIES - 1, MAX_LOG_ENTRIES}

ClassifierIdle ==
    /\ command = <<>>
    /\ cpc = "idle"
    /\ extracted = [base_cmd |-> <<>>, args |-> <<>>]
    /\ safe = FALSE

Init ==
    /\ ClassifierIdle
    /\ pc = [p \in ProcIds |-> "idle"]
    /\ input = [p \in ProcIds |-> NoInput]
    /\ logs = [p \in ProcIds |-> <<>>]
    /\ log_entry = [p \in ProcIds |-> NoEntry]
    /\ log_failed = [p \in ProcIds |-> FALSE]
    /\ log_before = [p \in ProcIds |-> <<>>]
    /\ stdout = [p \in ProcIds |-> <<>>]
    /\ exit_status = [p \in ProcIds |-> -1]
    /\ invocations = 0
    /\ \/ /\ logfile = [kind |-> "absent", entries |-> <<>>]
          /\ clock = 0
       \/ \E n \in INIT_LOG_LENGTHS :
              /\ logfile = OldLog(n)
              /\ clock = n

Next ==
    \/ StartHook(1)
    \/ ReadStdin(1)
    \/ CheckMcp(1)
    \/ CheckBash(1)
    \/ LogMkdir(1)
    \/ LogRead(1)
    \/ LogAppend(1)
    \/ LogOpen(1)
    \/ LogDump(1)
    \/ Emit(1)

Spec == Init /\ [][Next]_vars

(***************************************************************************)
(* Two hook processes inside log_decision at the same time                 *)
(***************************************************************************)
RACE_INPUTS ==
    {StdinObject(JsonStr(BASH), "obj", JsonStr(<<"l", "s">>)),
     StdinObject(JsonStr(<<"m", "c", "p", "_", "_", "z", "e", "n", "_", "_", "c", "h", "a", "t">>),
                 "obj", JsonStr(<<>>))}

InitRace ==
    /\ ClassifierIdle
    /\ pc = [p \in ProcIds |-> "log_decision"]
    /\ input \in [ProcIds -> RACE_INPUTS]
    /\ logs = [p \in ProcIds |-> <<>>]
    /\ log_entry = [p \in ProcIds |-> NoEntry]
    /\ log_failed = [p \in ProcIds |-> FALSE]
    /\ log_before = [p \in ProcIds |-> <<>>]
    /\ stdout = [p \in ProcIds |-> <<>>]
    /\ exit_status = [p \in ProcIds |-> -1]
    /\ invocations = 2
    /\ \/ /\ logfile = [kind |-> "absent", entries |-> <<>>]
          /\ clock = 0
       \/ /\ logfile = OldLog(1)
          /\ clock = 1

NextRace ==
    \E p \in ProcIds :
        \/ LogMkdir(p)
        \/ LogRead(p)
        \/ LogAppend(p)
        \/ LogOpen(p)
        \/ LogDump(p)
        \/ Emit(p)

SpecRace == InitRace /\ [][NextRace]_vars

(***************************************************************************)
(* Properties of the classifier, checked under SpecClassify                *)
(***************************************************************************)
\* the shell words of the first segment of the command
Words(cmd) == shlex_split(first_segment(cmd))

\* the command name is_safe_command looks up
CmdName == Join(last_path_component(extracted.base_cmd))

\* the text before the first occurrence of any separator
BeforeFirstOperator(cmd) ==
    LET at == {i \in 1..Len(cmd) :
                   \E k \in 1..Len(SEPARATORS) : StartsWithAt(cmd, i, SEPARATORS[k])}
    IN  IF at = {} THEN cmd
        ELSE SubSeq(cmd, 1, (CHOOSE i \in at : \A j \in at : i <= j) - 1)

HasOperator(cmd) == \E k \in 1..Len(SEPARATORS) : Contains(cmd, SEPARATORS[k])

\* C1: a command that matches an unsafe pattern is classified unsafe, whatever
\* its base command.
C1_UnsafePatternIsUnsafe ==
    (cpc = "classified" /\ matches_unsafe_pattern(command)) => safe = FALSE

\* C2: a command whose base name is not in SAFE_COMMANDS, or whose base
\* command is empty, is classified unsafe.
C2_UnlistedBaseIsUnsafe ==
    (cpc = "classified" /\ CmdName \notin SAFE_COMMANDS) => safe = FALSE

\* a wrapper was stripped, the wrapped command has a directory path and its
\* name is not in SAFE_COMMANDS
C2_Witness ==
    /\ cpc = "classified"
    /\ extracted.base_cmd # <<>>
    /\ CmdName \notin SAFE_COMMANDS
    /\ CmdName # ""
    /\ Join(Words(command).parts[1]) \in WRAPPERS
    /\ Contains(extracted.base_cmd, <<"/">>)
    /\ safe = FALSE

\* C3: a command with an entry in SAFE_SUBCOMMANDS whose first argument is not
\* a listed subcommand is classified unsafe; hence a safe result for such a
\* command means no argument or a listed first argument.
C3_UnlistedSubcommandIsUnsafe ==
    (cpc = "classified" /\ CmdName \in SAFE_COMMANDS
        /\ CmdName \in DOMAIN SAFE_SUBCOMMANDS)
    => /\ (extracted.args # <<>>
            /\ Join(extracted.args[1]) \notin SAFE_SUBCOMMANDS[CmdName])
          => safe = FALSE
       /\ safe = TRUE
          => \/ extracted.args = <<>>
             \/ Join(extracted.args[1]) \in SAFE_SUBCOMMANDS[CmdName]

\* git with the unlisted subcommand push, classified unsafe
C3_Witness ==
    /\ cpc = "classified"
    /\ CmdName = "git"
    /\ extracted.args # <<>>
    /\ Join(extracted.args[1]) = "push"
    /\ safe = FALSE

\* C5: is_safe_command returns a boolean, and returns False whenever the
\* first segment cannot be split into shell words.
C5_TokenizeFailureIsUnsafe ==
    cpc = "classified"
    => /\ safe \in BOOLEAN
       /\ ~Words(command).ok => safe = FALSE

\* the command splits into shell words as a whole, and its first segment does
\* not: the cut at an operator fell inside a quoted string
C5_Witness ==
    /\ cpc = "classified"
    /\ HasOperator(command)
    /\ shlex_split(strip_env(command)).ok
    /\ ~Words(command).ok
    /\ safe = FALSE

\* the command with everything from its first operator on replaced by ";"
WithoutLaterSegments(cmd) == BeforeFirstOperator(cmd) \o <<";">>

\* C8: for a command that holds an operator, the base command and arguments
\* come from the text before the first operator alone: they are those of the
\* command with the text after that operator removed.
C8_OnlyTextBeforeFirstOperator ==
    (cpc = "extracted" /\ HasOperator(command))
    => extracted = extract_base_command(WithoutLaterSegments(command))

\* the first word of the first segment is a wrapper written out plainly and
\* followed by whitespace and at least one more word
WrapsCommand(cmd) ==
    /\ Words(cmd).ok
    /\ Len(Words(cmd).parts) >= 2
    /\ Join(Words(cmd).parts[1]) \in WRAPPERS
    /\ StartsWithAt(first_segment(cmd), 1, Words(cmd).parts[1] \o <<" ">>)

\* the text the wrapper is applied to
WrappedCommand(cmd) ==
    SubSeq(first_segment(cmd), Len(Words(cmd).parts[1]) + 2, Len(first_segment(cmd)))

\* C9: when the first word is a wrapper, the next word is the base command and
\* the words after it are the arguments, and the command is safe only if the
\* command the wrapper is applied to is safe.
C9_SafeOnlyThroughWrappedCommand ==
    (cpc = "classified" /\ WrapsCommand(command))
    => /\ extracted.base_cmd = Words(command).parts[2]
       /\ extracted.args = SubSeq(Words(command).parts, 3, Len(Words(command).parts))
       /\ safe = TRUE => is_safe_command(WrappedCommand(command))

(***************************************************************************)
(* Properties of main and log_decision, checked under Spec                 *)
(***************************************************************************)
\* the input is an object with the types main expects
WellTyped(inp) ==
    /\ inp.json = "object"
    /\ inp.tool_name.type = "str"
    /\ inp.tool_name.val = BASH => inp.tool_input.type = "obj"

\* the command is a non-empty string the classifier approves
ClassifierApproves(inp) ==
    /\ inp.tool_input.command.type = "str"
    /\ inp.tool_input.command.val # <<>>
    /\ is_safe_command(inp.tool_input.command.val)

IsTrustedMcp(inp) ==
    \E k \in 1..Len(TRUSTED_MCP_PREFIXES) :
        StartsWithAt(inp.tool_name.val, 1, TRUSTED_MCP_PREFIXES[k])

WroteApprove(p) ==
    /\ Len(stdout[p]) = 1
    /\ stdout[p][1].decision = "approve"

\* C4, as claimed: for every input that is valid JSON the hook exits with
\* status 0, having written the approve object exactly when the classifier
\* approves the command.
C4_ApproveIffClassifierApproves ==
    (pc[1] = "exited" /\ input[1].json \in {"nonobject", "object"})
    => /\ exit_status[1] = 0
       /\ WroteApprove(1) <=> ClassifierApproves(input[1])
       /\ ~WroteApprove(1) => stdout[1] = <<>>

\* C4, amended: for every input that is a JSON object with a string tool name
\* (and, for the Bash tool, an object as tool_input) the hook exits with status
\* 0, having written the approve object exactly when the tool name starts with
\* a trusted MCP prefix or the tool is Bash and the classifier approves its
\* non-empty command.
C4_ApproveIffTrustedOrSafe ==
    (pc[1] = "exited" /\ WellTyped(input[1]))
    => /\ exit_status[1] = 0
       /\ WroteApprove(1)
          <=> \/ IsTrustedMcp(input[1])
              \/ input[1].tool_name.val = BASH /\ ClassifierApproves(input[1])
       /\ ~WroteApprove(1) => stdout[1] = <<>>

\* a trusted MCP tool was approved although the classifier approves no command
C4_Witness ==
    /\ pc[1] = "exited"
    /\ WellTyped(input[1])
    /\ IsTrustedMcp(input[1])
    /\ ~ClassifierApproves(input[1])
    /\ WroteApprove(1)
    /\ exit_status[1] = 0

\* C6: an exception inside log_decision does not leave it, and the approve
\* object is written with exit status 0 all the same.
C6_LogFailureIsSwallowed ==
    log_failed[1]
    => /\ pc[1] \in {"emit", "exited"}
       /\ pc[1] = "exited"
          => /\ exit_status[1] = 0
             /\ stdout[1] = <<approve_output(input[1])>>

\* the write failed after the file was opened, and the hook approved
C6_Witness ==
    /\ log_failed[1]
    /\ logfile.kind = "corrupt"
    /\ pc[1] = "exited"
    /\ WroteApprove(1)
    /\ exit_status[1] = 0

\* the last n elements of s
LastN(s, n) ==
    LET m == IF Len(s) < n THEN Len(s) ELSE n
    IN  [i \in 1..m |-> s[Len(s) - m + i]]

\* C7: the log never holds more than 1000 entries, and after a call of
\* log_decision that wrote the file it is the log from before the call with
\* the new entry appended, cut to its last 1000 entries.
C7_LogIsCappedAppend ==
    /\ Len(logfile.entries) <= MAX_LOG_ENTRIES
    /\ (pc[1] = "emit" /\ ~log_failed[1])
       => /\ logfile.kind = "list"
          /\ logfile.entries = LastN(Append(log_before[1], log_entry[1]), MAX_LOG_ENTRIES)

\* a second write in a row onto a full log: the two oldest entries are gone
C7_Witness ==
    /\ pc[1] = "emit"
    /\ ~log_failed[1]
    /\ invocations = 2
    /\ Len(logfile.entries) = MAX_LOG_ENTRIES
    /\ logfile.entries[1].timestamp = 3
    /\ logfile.entries[MAX_LOG_ENTRIES] = log_entry[1]

(***************************************************************************)
(* Property of concurrent calls of log_decision, checked under SpecRace    *)
(***************************************************************************)
Entries == {logfile.entries[i] : i \in 1..Len(logfile.entries)}

\* C10: when two invocations have both run log_decision without an exception,
\* the entries of both are in the log.
C10_BothEntriesKept ==
    (\A p \in ProcIds : pc[p] = "exited" /\ ~log_failed[p])
    => \A p \in ProcIds : log_entry[p] \in Entries

====
